---- MODULE Spec2Model ----
(***************************************************************************)
(* Persona conversation pipeline of backend/main.py:                       *)
(*   - voice_interview_realtime, the completion provider chain             *)
(*     (call_groq -> call_openai -> generate_offline_persona_response),    *)
(*   - generate_offline_persona_response, the offline persona simulator,   *)
(*   - the question classifier that is inlined in voice_interview_realtime,*)
(*   - get_persona_voice,                                                  *)
(*   - voice_stream_websocket, the /voice-stream session handler.          *)
(* Python strings are TLA+ strings; str.lower, str.strip, str.split and    *)
(* the `in` operator are computed character by character.                  *)
(***************************************************************************)
EXTENDS Integers, Sequences, FiniteSets, TLC

(***************************************************************************)
(* Bounds                                                                  *)
(***************************************************************************)
\* The per-process hash seed ranges over 0 .. 2*HashSpan-1.
HashSpan == 4

\* The number of inbound units a /voice-stream session receives.
MaxUnits == 3

(***************************************************************************)
(* Python values                                                           *)
(***************************************************************************)
None == "<None>"

Whitespace == {" ", "\t", "\n"}

UpperToLower ==
    ("A" :> "a") @@ ("B" :> "b") @@ ("C" :> "c") @@ ("D" :> "d") @@
    ("E" :> "e") @@ ("F" :> "f") @@ ("G" :> "g") @@ ("H" :> "h") @@
    ("I" :> "i") @@ ("J" :> "j") @@ ("K" :> "k") @@ ("L" :> "l") @@
    ("M" :> "m") @@ ("N" :> "n") @@ ("O" :> "o") @@ ("P" :> "p") @@
    ("Q" :> "q") @@ ("R" :> "r") @@ ("S" :> "s") @@ ("T" :> "t") @@
    ("U" :> "u") @@ ("V" :> "v") @@ ("W" :> "w") @@ ("X" :> "x") @@
    ("Y" :> "y") @@ ("Z" :> "z")

\* s[i-1] of Python: the i-th character, as a string of length one.
CharAt(s, i) == SubSeq(s, i, i)

LowerChar(c) == IF c \in DOMAIN UpperToLower THEN UpperToLower[c] ELSE c

\* str.lower(): the characters of s, each lowered, in order.
lower(s) ==
    LET prefix[i \in 0 .. Len(s)] ==
            IF i = 0 THEN "" ELSE prefix[i - 1] \o LowerChar(CharAt(s, i))
    IN  prefix[Len(s)]

\* `needle in hay` for two Python strings (h, n: the two operands, evaluated once).
Contains(hay, needle) ==
    \E h \in {hay}, n \in {needle} :
        \E i \in 1 .. (Len(h) - Len(n) + 1) : SubSeq(h, i, i + Len(n) - 1) = n

\* any(phrase in text for phrase in phrases)
ContainsAny(text, phrases) ==
    \E t \in {text} : \E phrase \in phrases : Contains(t, phrase)

\* len(s.split()): the number of maximal runs of non-whitespace characters.
WordCount(s) ==
    Cardinality({i \in 1 .. Len(s) :
        /\ CharAt(s, i) \notin Whitespace
        /\ (i = 1 \/ CharAt(s, i - 1) \in Whitespace)})

\* str.strip()
strip(s) ==
    LET keep == {i \in 1 .. Len(s) : CharAt(s, i) \notin Whitespace}
        first == CHOOSE i \in keep : \A j \in keep : i <= j
        last == CHOOSE i \in keep : \A j \in keep : j <= i
    IN  IF keep = {} THEN "" ELSE SubSeq(s, first, last)

\* `not x` for a value that is None or a string.
Falsy(x) == x = None \/ x = ""

\* dict.get(key, default)
get(item, key, default) == IF key \in DOMAIN item THEN item[key] ELSE default

(***************************************************************************)
(* State                                                                   *)
(***************************************************************************)
VARIABLES
    GROQ_API_KEY,         \* module global read from the environment at import
    OPENAI_API_KEY,       \* module global read from the environment at import
    hashseed,             \* the interpreter's per-process string-hash seed
    pc,                   \* position of the voice_interview_realtime coroutine
    request,              \* the VoiceInterviewRequest being served
    transcribed_text,     \* local of voice_interview_realtime
    is_leading_question,  \* local of voice_interview_realtime
    is_vague_question,    \* local of voice_interview_realtime
    response_style,       \* local of voice_interview_realtime
    context,              \* local of voice_interview_realtime
    prompt,               \* local of voice_interview_realtime
    persona_response,     \* local of voice_interview_realtime
    calls,                \* the external and simulator calls of this unit, in order
    response,             \* what the endpoint answered: a response body or an HTTP error
    sim_user_message,     \* argument of a direct simulator call
    sim_persona,          \* argument of a direct simulator call
    sim_replies,          \* results of the direct simulator calls, in order
    sim_restarted,        \* the process was restarted since the first direct call
    ws_pc,                \* position of the voice_stream_websocket coroutine
    ws_in,                \* the inbound units the session has received, in order
    ws_data,              \* local data of voice_stream_websocket
    ws_services,          \* how the external services answer during the current unit
    ws_transcribed_text,  \* local transcribed_text of voice_stream_websocket
    ws_calls,             \* the external calls of the session, in order
    ws_pending,           \* the frame handed to websocket.send_json
    ws_out,               \* the frames the session has sent, in order
    ws_exit,              \* how the receive loop was left
    ws_closes,            \* number of calls of websocket.close()
    voice_name,           \* argument persona_name of a direct get_persona_voice call
    voice_style,          \* argument communication_style of a direct get_persona_voice call
    voice_results,        \* results of the direct get_persona_voice calls, in order
    iv_pc,                \* position of the conduct_interview / voice_interview coroutine
    iv_entry,             \* the endpoint entered: "interview" or "voice"
    iv_voice_request,     \* the VoiceInterviewRequest of voice_interview
    iv_request,           \* the InterviewAIRequest of conduct_interview
    iv_text_response,     \* what conduct_interview returned
    iv_response,          \* what the endpoint answered
    iv_calls,             \* the external calls of the request, in order
    ANTHROPIC_API_KEY,    \* module global read from the environment at import
    orch_pc,              \* position of the orchestrator coroutine
    orch_request,         \* the OrchestratorRequest being served
    orch_response,        \* what the orchestrator answered
    orch_calls            \* the provider calls of the orchestrator request, in order

procvars == <<GROQ_API_KEY, OPENAI_API_KEY, hashseed>>
unitvars == <<pc, request, transcribed_text, is_leading_question, is_vague_question,
              response_style, context, prompt, persona_response, calls, response>>
simvars == <<sim_user_message, sim_persona, sim_replies, sim_restarted>>
wsvars == <<ws_pc, ws_in, ws_data, ws_services, ws_transcribed_text, ws_calls,
            ws_pending, ws_out, ws_exit, ws_closes>>
voicevars == <<voice_name, voice_style, voice_results>>
ivvars == <<iv_pc, iv_entry, iv_voice_request, iv_request, iv_text_response, iv_response,
            iv_calls>>
orchvars == <<ANTHROPIC_API_KEY, orch_pc, orch_request, orch_response, orch_calls>>
vars == <<GROQ_API_KEY, OPENAI_API_KEY, hashseed, pc, request, transcribed_text,
          is_leading_question, is_vague_question, response_style, context,
          prompt, persona_response, calls, response, sim_user_message, sim_persona,
          sim_replies, sim_restarted, ws_pc, ws_in, ws_data, ws_services,
          ws_transcribed_text, ws_calls, ws_pending, ws_out, ws_exit, ws_closes,
          voice_name, voice_style, voice_results, iv_pc, iv_entry, iv_voice_request,
          iv_request, iv_text_response, iv_response, iv_calls, ANTHROPIC_API_KEY,
          orch_pc, orch_request, orch_response, orch_calls>>

(***************************************************************************)
(* The built-in hash of a str.  CPython keys it with a seed drawn at       *)
(* interpreter start (hash randomization), so the value is fixed by        *)
(* (seed, text) within a process and differs between processes; the empty  *)
(* string hashes to 0 under every seed.  The value is a signed integer     *)
(* whose magnitude is unrelated to the length of any template list.        *)
(***************************************************************************)
Seeds == 0 .. (2 * HashSpan - 1)

StrHash(seed, s) ==
    IF s = "" THEN 0 ELSE 3 * (seed - HashSpan) + (Len(s) % 3)

hash(s) == StrHash(hashseed, s)

IndexError == "<IndexError>"

\* responses[i] for a Python list: negative indices count from the end.
PyIndex(responses, i) ==
    IF i \in 0 .. (Len(responses) - 1) THEN responses[i + 1]
    ELSE IF i \in (0 - Len(responses)) .. (0 - 1) THEN responses[Len(responses) + i + 1]
    ELSE IndexError

\* responses[hash(user_message)]: the list indexed by the hash itself.
PickNoModulo(responses, user_message) ==
    PyIndex(responses, hash(user_message))

\* responses[hash(user_message) % len(responses)]
Pick(responses, user_message) ==
    PyIndex(responses, hash(user_message) % Len(responses))

(***************************************************************************)
(* generate_offline_persona_response: keyword sets and template lists      *)
(***************************************************************************)
SimLeadingPhrases == {"don't you think", "wouldn't you", "isn't it true", "surely you"}
SimVaguePhrases == {"what do you think", "how do you feel", "tell me about"}
GreetingWords == {"hello", "hi", "hey", "start"}
PainWords == {"problem", "challenge", "pain", "frustration"}
SolutionWords == {"solution", "product", "feature", "app", "platform"}
PricingWords == {"price", "cost", "pay", "money", "expensive"}
TimeWords == {"time", "fast", "quick", "speed", "efficient"}
CompetitionWords == {"competitor", "alternative", "existing", "current"}

LeadingResponses ==
    << "I mean, I'm not sure about that...",
       "Not necessarily, no.",
       "I guess it depends.",
       "That's not really how I see it.",
       "I'd need to know more specifics." >>

VagueResponses ==
    << "About what specifically?",
       "I mean, it's fine I guess.",
       "Can you be more specific?",
       "It depends on what you mean.",
       "I don't really have strong opinions on that." >>

GreetingResponses(name) ==
    << "Hi. I'm " \o name \o ". What's this about?",
       "Hey there. So what did you want to discuss?",
       "Hi. I don't have too much time, but what's up?",
       "Hello. You mentioned something about a startup idea?" >>

PainPointResponses(pain_point) ==
    << "Yeah, I deal with " \o pain_point \o " sometimes. Why?",
       "I mean, " \o pain_point \o " can be annoying. What about it?",
       "Sure, " \o pain_point \o " is a thing. Are you trying to solve that or something?",
       "I guess " \o pain_point \o " comes up. What's your angle?" >>

NoPainPointResponses ==
    << "I mean, there are always challenges. What specifically?",
       "Sure, work has its problems. What are you getting at?",
       "I guess there are some pain points. Why do you ask?",
       "Yeah, things could be better. What's this about?" >>

PainResponses(persona) ==
    IF Len(persona.pain_points) > 0
    THEN PainPointResponses(persona.pain_points[1])
    ELSE NoPainPointResponses

SolutionResponses ==
    << "Okay... what does it do exactly?",
       "I've heard that before. How is this different?",
       "Sounds like a lot of other things out there.",
       "What makes you think people need this?",
       "I mean, maybe. Depends on how it works." >>

PricingResponses ==
    << "Depends what I'm getting for it.",
       "I'm not looking to spend money on random stuff.",
       "Price matters, but so does value. What's the value?",
       "I'd need to see if it's worth it first.",
       "How much are we talking?" >>

TimeResponses ==
    << "Time is definitely important. How much time are we talking?",
       "I mean, faster is better I guess. But how?",
       "Sure, I don't like wasting time. What's your point?",
       "Efficiency is good, but I've heard promises before.",
       "Okay, but how do you actually make things faster?" >>

CompetitionResponses ==
    << "Yeah, I use a few different tools already.",
       "There are options out there. What makes yours special?",
       "I've got my current setup. Why would I switch?",
       "Sure, there are alternatives. So what?",
       "I mean, the market's pretty crowded already." >>

DefaultResponses ==
    << "I'm not sure I follow. Can you explain?",
       "Okay... and?",
       "I guess. What's your point?",
       "That's interesting I suppose. Where are you going with this?",
       "I mean, maybe. I'd need to understand more.",
       "Not sure about that. Can you be more specific?",
       "I don't really know enough to say." >>

\* The simulator with the greeting test moved in front of the leading test.
generate_offline_persona_response_GreetingFirst(user_message, persona) ==
    LET name == persona.name
        user_lower == lower(user_message)
    IN  IF ContainsAny(user_lower, GreetingWords)
        THEN Pick(GreetingResponses(name), user_message)
        ELSE IF ContainsAny(user_lower, SimLeadingPhrases)
        THEN Pick(LeadingResponses, user_message)
        ELSE IF ContainsAny(user_lower, SimVaguePhrases) /\ WordCount(user_message) < 8
        THEN Pick(VagueResponses, user_message)
        ELSE IF ContainsAny(user_lower, PainWords)
        THEN Pick(PainResponses(persona), user_message)
        ELSE IF ContainsAny(user_lower, SolutionWords)
        THEN Pick(SolutionResponses, user_message)
        ELSE IF ContainsAny(user_lower, PricingWords)
        THEN Pick(PricingResponses, user_message)
        ELSE IF ContainsAny(user_lower, TimeWords)
        THEN Pick(TimeResponses, user_message)
        ELSE IF ContainsAny(user_lower, CompetitionWords)
        THEN Pick(CompetitionResponses, user_message)
        ELSE Pick(DefaultResponses, user_message)

\* def generate_offline_persona_response(user_message, persona) -> str
generate_offline_persona_response(user_message, persona) ==
    LET role == lower(persona.role)
        name == persona.name
        user_lower == lower(user_message)
    IN  IF ContainsAny(user_lower, SimLeadingPhrases)
        THEN Pick(LeadingResponses, user_message)
        ELSE IF ContainsAny(user_lower, SimVaguePhrases) /\ WordCount(user_message) < 8
        THEN Pick(VagueResponses, user_message)
        ELSE IF ContainsAny(user_lower, GreetingWords)
        THEN Pick(GreetingResponses(name), user_message)
        ELSE IF ContainsAny(user_lower, PainWords)
        THEN Pick(PainResponses(persona), user_message)
        ELSE IF ContainsAny(user_lower, SolutionWords)
        THEN Pick(SolutionResponses, user_message)
        ELSE IF ContainsAny(user_lower, PricingWords)
        THEN Pick(PricingResponses, user_message)
        ELSE IF ContainsAny(user_lower, TimeWords)
        THEN Pick(TimeResponses, user_message)
        ELSE IF ContainsAny(user_lower, CompetitionWords)
        THEN Pick(CompetitionResponses, user_message)
        ELSE Pick(DefaultResponses, user_message)

(***************************************************************************)
(* voice_interview_realtime: question classifier and policy filter         *)
(***************************************************************************)
LeadingPhrases ==
    {"don't you think", "wouldn't you", "isn't it true", "surely you", "obviously",
     "everyone knows", "it's clear that", "you must", "you probably", "wouldn't you agree",
     "don't you agree", "isn't it obvious", "clearly you", "surely you must"}

vague_patterns == {"what do you think", "how do you feel", "what's your opinion"}

good_question_patterns ==
    {"tell me about", "walk me through", "describe", "explain", "what happened",
     "how do you", "what's your process", "can you share", "what works", "what doesn't work"}

IsLeadingQuestion(text) == ContainsAny(lower(text), LeadingPhrases)

\* The vague test without the exclusion of good behavioral questions.
IsVagueQuestion_NoOverride(text) ==
    /\ WordCount(text) < 8
    /\ ContainsAny(lower(text), vague_patterns)

IsVagueQuestion(text) ==
    /\ WordCount(text) < 8
    /\ ContainsAny(lower(text), vague_patterns)
    /\ ~ContainsAny(lower(text), good_question_patterns)

LeadingStyle ==
    "The founder asked a leading question. Be skeptical and push back. Don't just agree."
VagueStyle ==
    "The founder asked a vague question. Give a short, non-committal answer or ask for specifics."
NormalStyle ==
    "The founder asked a reasonable question. You can engage normally but still be naturally cautious."

\* The style chosen with the vague test ahead of the leading test.
ResponseStyle_VagueFirst(leading, vague) ==
    IF vague THEN VagueStyle ELSE IF leading THEN LeadingStyle ELSE NormalStyle

ResponseStyle(leading, vague) ==
    IF leading THEN LeadingStyle ELSE IF vague THEN VagueStyle ELSE NormalStyle

PolicyPhrases ==
    {"cannot create", "cannot provide", "i cannot", "content policy",
     "inappropriate", "explicit content", "i cannot help", "against my programming"}

\* any(phrase in persona_response.lower() for phrase in [...])
IsPolicyRefusal(text) == ContainsAny(lower(text), PolicyPhrases)

(***************************************************************************)
(* get_persona_voice                                                       *)
(***************************************************************************)
FemaleNames == {"sarah", "emma", "maria", "jennifer", "lisa", "anna", "kate", "amy",
                "rachel", "jessica"}
MaleNames == {"marcus", "john", "mike", "david", "alex", "chris", "james", "robert",
              "michael", "daniel"}

\* The voice of a name that matches neither list is alloy.
DefaultVoice_Alloy == "alloy"

\* return "nova", the last statement of get_persona_voice.
DefaultVoice == "nova"

\* get_persona_voice with the male list tested ahead of the female list.
get_persona_voice_MaleFirst(persona_name, communication_style) ==
    LET name_lower == lower(persona_name)
        style_lower == lower(communication_style)
    IN  IF ContainsAny(name_lower, MaleNames)
        THEN IF Contains(style_lower, "technical") \/ Contains(style_lower, "analytical")
             THEN "echo"
             ELSE IF Contains(style_lower, "casual") \/ Contains(style_lower, "friendly")
             THEN "fable"
             ELSE "onyx"
        ELSE IF ContainsAny(name_lower, FemaleNames)
        THEN IF Contains(style_lower, "professional") \/ Contains(style_lower, "formal")
             THEN "shimmer"
             ELSE IF Contains(style_lower, "creative") \/ Contains(style_lower, "friendly")
             THEN "nova"
             ELSE "alloy"
        ELSE DefaultVoice

get_persona_voice(persona_name, communication_style) ==
    LET name_lower == lower(persona_name)
        style_lower == lower(communication_style)
    IN  IF ContainsAny(name_lower, FemaleNames)
        THEN IF Contains(style_lower, "professional") \/ Contains(style_lower, "formal")
             THEN "shimmer"
             ELSE IF Contains(style_lower, "creative") \/ Contains(style_lower, "friendly")
             THEN "nova"
             ELSE "alloy"
        ELSE IF ContainsAny(name_lower, MaleNames)
        THEN IF Contains(style_lower, "technical") \/ Contains(style_lower, "analytical")
             THEN "echo"
             ELSE IF Contains(style_lower, "casual") \/ Contains(style_lower, "friendly")
             THEN "fable"
             ELSE "onyx"
        ELSE DefaultVoice

(***************************************************************************)
(* Inputs                                                                  *)
(***************************************************************************)
SarahChen ==
    [name |-> "Sarah Chen", role |-> "Freelance Graphic Designer",
     demographics |-> "28, San Francisco, 5 years experience",
     pain_points |-> <<"invoice tracking", "Client follow-ups">>,
     goals |-> <<"Streamline workflow", "Focus on creative work">>,
     personality_traits |-> <<"Detail-oriented", "Creative">>,
     communication_style |-> "Friendly but professional"]

MarcusLee ==
    [name |-> "Marcus Lee", role |-> "Startup CTO",
     demographics |-> "35, Austin",
     pain_points |-> <<>>,
     goals |-> <<>>,
     personality_traits |-> <<"Analytical">>,
     communication_style |-> None]

PriyaPatel ==
    [name |-> "Priya Patel", role |-> "Restaurant Owner",
     demographics |-> "41, Chicago",
     pain_points |-> <<"Staff Scheduling">>,
     goals |-> <<"Fewer no-shows">>,
     personality_traits |-> <<>>,
     communication_style |-> "Creative and artistic"]

Personas == {SarahChen, MarcusLee, PriyaPatel}

\* Founder utterances: what transcription or the history can deliver.
Utterances ==
    {"What's your biggest challenge?",
     "Don't you think this is great?",
     "Wouldn't you want a platform for that?",
     "SURELY YOU agree",
     "Obviously this saves you time",
     "You must hate that",
     "What do you think?",
     "How do you feel",
     "Tell me about your biggest challenge",
     "Tell me about the last time an invoice went missing please",
     "Hello",
     "Hey, is this a problem for you?",
     "How much does the product cost?",
     "What would you pay for it?",
     "Is it fast enough?",
     "Any existing alternative?",
     "Why?",
     "Obviously, what do you think?",
     "Wouldn't you agree? Describe it in your own words, what do you think?",
     " "}

\* What transcribe_audio can return: an utterance, or nothing for silence.
Transcripts == Utterances \cup {""}

\* Arguments of a direct call of the simulator.
SimUtterances == Utterances \cup {""}

\* The message content a completion provider can answer with, before .strip().
Completions ==
    {"Yeah, invoices are annoying.",
     " It depends. What's your angle?\n",
     "I CANNOT help with that request.",
     "Sorry, that is against our Content Policy.",
     "   ",
     ""}

Turn(r, m) == [role |-> r, message |-> m]

LongHistory ==
    << Turn("user", "Hello"),
       Turn("persona", "Hi. What's this about?"),
       Turn("user", "Why?"),
       Turn("persona", "Okay... and?"),
       Turn("user", "Is it fast enough?"),
       Turn("persona", "I guess. What's your point?"),
       Turn("user", "What would you pay for it?"),
       Turn("persona", "How much are we talking?") >>

\* conversation_history is a List[Dict[str, str]]: an item may lack a key.
Histories ==
    { <<>>,
      << Turn("persona", "Hi. What's this about?") >>,
      << Turn("user", "You must hate that"), Turn("persona", "Not really.") >>,
      << Turn("user", "") >>,
      SubSeq(LongHistory, 1, 6),
      SubSeq(LongHistory, 1, 7),
      LongHistory,
      << Turn("user", "Why?"), [message |-> "no role here"] >>,
      << [role |-> "user"] >> }

AudioFiles == {None, "", "UklGRg=="}

Requests ==
    [persona : Personas, audio_file : AudioFiles, conversation_history : Histories]

KeyValues == {None, "sk-configured"}

(***************************************************************************)
(* voice_interview_realtime                                                *)
(***************************************************************************)
\* No persona: the value of a persona slot that holds no request's persona.
NoPersona ==
    [name |-> "", role |-> "", demographics |-> "", pain_points |-> <<>>, goals |-> <<>>,
     personality_traits |-> <<>>, communication_style |-> None]

NoRequest == [persona |-> NoPersona, audio_file |-> None, conversation_history |-> <<>>]

Call(op, outcome, text) == [op |-> op, outcome |-> outcome, text |-> text]

ApologyText ==
    "Sorry, I couldn't understand your audio. Could you try speaking again or check your microphone?"

VoiceInterviewResponse(text, audio_url, transcribed) ==
    [status |-> 200,
     persona_response |-> text,
     persona_audio_url |-> audio_url,
     transcribed_user_message |-> transcribed,
     suggested_questions |-> <<>>,
     conversation_status |-> "ongoing"]

HTTPException(code) == [status |-> code]

\* Nothing has been answered yet.
NoResponse == [status |-> 0]

UnitReset ==
    /\ transcribed_text' = ""
    /\ is_leading_question' = FALSE
    /\ is_vague_question' = FALSE
    /\ response_style' = ""
    /\ context' = ""
    /\ prompt' = ""
    /\ persona_response' = None
    /\ calls' = <<>>
    /\ response' = NoResponse

\* The endpoint is entered with a validated VoiceInterviewRequest.
Receive ==
    /\ pc = "idle"
    /\ \E req \in Requests : request' = req
    /\ pc' = "start"
    /\ UnitReset
    /\ UNCHANGED <<procvars, simvars, wsvars,
                   voicevars, ivvars, orchvars>>

\* transcribe_audio raised and the unit is answered by the simulator.
TranscribeFailed_Simulated ==
    \E simulated \in {generate_offline_persona_response("", request.persona)} :
        /\ response' = VoiceInterviewResponse(simulated, None, "")
        /\ calls' = calls \o << Call("transcribe", "error", ""),
                                Call("simulator", "success", simulated) >>
        /\ pc' = "done"
        /\ UNCHANGED <<transcribed_text, is_leading_question, is_vague_question,
                       response_style, context, prompt, persona_response>>

\* transcribe_audio raised: the unit is answered with the apology.
TranscribeFailed ==
    /\ response' = VoiceInterviewResponse(ApologyText, None, "")
    /\ calls' = Append(calls, Call("transcribe", "error", ""))
    /\ pc' = "done"
    /\ UNCHANGED <<transcribed_text, is_leading_question, is_vague_question,
                   response_style, context, prompt, persona_response>>

TranscribeOk(text) ==
    /\ transcribed_text' = text
    /\ calls' = Append(calls, Call("transcribe", "success", text))
    /\ pc' = "compose"
    /\ UNCHANGED <<is_leading_question, is_vague_question, response_style, context, prompt,
                   persona_response, response>>

\* if request.audio_file: transcribed_text = await transcribe_audio(...)
Transcribe ==
    /\ pc = "start"
    /\ ~Falsy(request.audio_file)
    /\ \/ TranscribeFailed
       \/ /\ ~Falsy(OPENAI_API_KEY)
          /\ \E text \in Transcripts : TranscribeOk(text)
    /\ UNCHANGED <<procvars, request, simvars, wsvars,
                   voicevars, ivvars, orchvars>>

\* The message of the last history item whose role is 'user', else None.
LastUserMessage(history) ==
    LET users == {i \in 1 .. Len(history) : get(history[i], "role", None) = "user"}
        last == CHOOSE i \in users : \A j \in users : j <= i
    IN  IF users = {} THEN None ELSE get(history[last], "message", "")

\* The utterance the unit is about, after the two text fallbacks.
EffectiveText(text, history) ==
    LET fromHistory ==
            IF Falsy(text) /\ Len(history) > 0
            THEN (IF Falsy(LastUserMessage(history)) THEN "Hello"
                  ELSE LastUserMessage(history))
            ELSE text
    IN  IF Falsy(fromHistory)
        THEN "Hello, I'd like to hear about your startup idea."
        ELSE fromHistory

\* conversation_history[:6], the oldest six items.
RecentContext_Oldest(history) ==
    IF Len(history) > 6 THEN SubSeq(history, 1, 6) ELSE history

\* conversation_history[-6:]
RecentContext(history) ==
    IF Len(history) > 6 THEN SubSeq(history, Len(history) - 5, Len(history)) ELSE history

\* item['role'] or item['message'] raises KeyError for some item of the window.
ContextRaises(history) ==
    \E i \in 1 .. Len(RecentContext(history)) :
        ~({"role", "message"} \subseteq DOMAIN RecentContext(history)[i])

ContextLine(item, name) ==
    (IF item["role"] = "user" THEN "Founder" ELSE name) \o ": " \o item["message"]

\* "\n".join([... for item in recent_context])
JoinLines(items, name) ==
    LET joined[i \in 0 .. Len(items)] ==
            IF i = 0 THEN ""
            ELSE IF i = 1 THEN ContextLine(items[1], name)
            ELSE joined[i - 1] \o "\n" \o ContextLine(items[i], name)
    IN  joined[Len(items)]

\* prompt = f"""Conversation so far: ... Your response:"""
TurnPrompt(ctx, text, style, name) ==
    "Conversation so far:\n" \o ctx \o "\n\nFounder just said: \"" \o text \o "\"\n\n"
    \o style \o "\n\nRespond as " \o name
    \o " would ACTUALLY respond in real life. Remember:\n"
    \o "- You're busy and slightly skeptical\n"
    \o "- Don't volunteer detailed information unless they ask great questions\n"
    \o "- Keep it short and natural\n"
    \o "- Be human, not helpful\n\nYour response:"

\* The outer handler answers an unexpected exception with an HTTP 500.
UnexpectedException_Http500(text) ==
    /\ transcribed_text' = text
    /\ response' = HTTPException(500)
    /\ pc' = "done"
    /\ UNCHANGED <<is_leading_question, is_vague_question, response_style, context, prompt,
                   persona_response, calls>>

\* except Exception as e: of the outer try, the graceful fallback response.
UnexpectedException(text) ==
    \E fallback_response \in {generate_offline_persona_response(text, request.persona)} :
        /\ transcribed_text' = text
        /\ calls' = Append(calls, Call("simulator", "success", fallback_response))
        /\ response' = VoiceInterviewResponse(fallback_response, None, text)
        /\ pc' = "done"
        /\ UNCHANGED <<is_leading_question, is_vague_question, response_style, context, prompt,
                       persona_response>>

\* The synchronous stretch from the text fallbacks to the turn prompt.
Compose ==
    /\ \/ pc = "compose"
       \/ pc = "start" /\ Falsy(request.audio_file)
    /\ \E text \in {EffectiveText(transcribed_text, request.conversation_history)} :
           IF ContextRaises(request.conversation_history)
           THEN UnexpectedException(text)
           ELSE \E ctx \in {JoinLines(RecentContext(request.conversation_history),
                                       request.persona.name)},
                   style \in {ResponseStyle(IsLeadingQuestion(text),
                                            IsVagueQuestion(text))} :
                    /\ transcribed_text' = text
                    /\ context' = ctx
                    /\ is_leading_question' = IsLeadingQuestion(text)
                    /\ is_vague_question' = IsVagueQuestion(text)
                    /\ response_style' = style
                    /\ prompt' = TurnPrompt(ctx, text, style, request.persona.name)
                    /\ pc' = "groq"
                    /\ UNCHANGED <<persona_response, calls, response>>
    /\ UNCHANGED <<procvars, request, simvars, wsvars,
                   voicevars, ivvars, orchvars>>

(***************************************************************************)
(* The completion provider chain of voice_interview_realtime               *)
(***************************************************************************)
\* How call_groq / call_openai can raise: RuntimeError without a key, else
\* HTTPException 504 on a timeout and 502 on any other failure.
ProviderFailures(key) ==
    IF Falsy(key) THEN {"unconfigured"} ELSE {"timeout", "error"}

\* call_groq returned and a rejected text makes the handler call Groq again.
GroqReturned_Retry(content) ==
    \E text \in {strip(content)} :
        IF IsPolicyRefusal(text)
        THEN /\ persona_response' = "Yeah, invoices are annoying."
             /\ calls' = calls \o << Call("groq", "policy_rejected", text),
                                     Call("groq", "success", "Yeah, invoices are annoying.") >>
        ELSE /\ persona_response' = text
             /\ calls' = Append(calls, Call("groq", "success", text))

\* call_groq returned: the policy test, then the simulator on a match.
GroqReturned(content) ==
    \E text \in {strip(content)},
       simulated \in {generate_offline_persona_response(transcribed_text, request.persona)} :
        IF IsPolicyRefusal(text)
        THEN /\ persona_response' = simulated
             /\ calls' = calls \o << Call("groq", "policy_rejected", text),
                                     Call("simulator", "success", simulated) >>
        ELSE /\ persona_response' = text
             /\ calls' = Append(calls, Call("groq", "success", text))

\* persona_response = await call_groq(prompt, system_prompt)
CallGroq ==
    /\ pc = "groq"
    /\ \/ /\ ~Falsy(GROQ_API_KEY)
          /\ \E content \in Completions : GroqReturned(content)
          /\ pc' = "tts"
       \/ /\ \E failure \in ProviderFailures(GROQ_API_KEY) :
                 calls' = Append(calls, Call("groq", failure, ""))
          /\ pc' = "openai"
          /\ UNCHANGED persona_response
    /\ UNCHANGED <<procvars, request, transcribed_text, is_leading_question,
                   is_vague_question, response_style, context, prompt, response,
                   simvars, wsvars,
                   voicevars, ivvars, orchvars>>

\* call_openai returned: the completion is the reply.
OpenAIReturned(content) ==
    \E text \in {strip(content)} :
        /\ persona_response' = text
        /\ calls' = Append(calls, Call("openai", "success", text))

\* call_openai raised and the unit is answered with the apology text.
OpenAIFailed_Apology(failure) ==
    /\ persona_response' = ApologyText
    /\ calls' = Append(calls, Call("openai", failure, ""))

\* call_openai raised: the offline fallback response.
OpenAIFailed(failure) ==
    \E simulated \in {generate_offline_persona_response(transcribed_text, request.persona)} :
        /\ persona_response' = simulated
        /\ calls' = calls \o << Call("openai", failure, ""),
                                Call("simulator", "success", simulated) >>

\* except Exception as groq_error: persona_response = await call_openai(...)
CallOpenAI ==
    /\ pc = "openai"
    /\ \/ /\ ~Falsy(OPENAI_API_KEY)
          /\ \E content \in Completions : OpenAIReturned(content)
       \/ \E failure \in ProviderFailures(OPENAI_API_KEY) : OpenAIFailed(failure)
    /\ pc' = "tts"
    /\ UNCHANGED <<procvars, request, transcribed_text, is_leading_question,
                   is_vague_question, response_style, context, prompt, response,
                   simvars, wsvars,
                   voicevars, ivvars, orchvars>>

\* What synthesize_speech returns for a text: base64 of the audio.
AudioOf(text) == "bXAz"

\* The synthesis failure answered with an apology in place of the reply.
SynthesizeFailed_Apology(selected_voice) ==
    /\ calls' = Append(calls, Call("tts", "error", selected_voice))
    /\ response' = VoiceInterviewResponse(ApologyText, None, transcribed_text)

\* except Exception as audio_error: audio_url = None
SynthesizeFailed(selected_voice) ==
    /\ calls' = Append(calls, Call("tts", "error", selected_voice))
    /\ response' = VoiceInterviewResponse(persona_response, None, transcribed_text)

\* synthesize_speech returned the audio.
SynthesizeOk(selected_voice) ==
    /\ calls' = Append(calls, Call("tts", "success", selected_voice))
    /\ response' = VoiceInterviewResponse(persona_response,
                       "data:audio/mp3;base64," \o AudioOf(persona_response),
                       transcribed_text)

\* Speech synthesis and the return of the response.
Synthesize ==
    /\ pc = "tts"
    /\ \E selected_voice \in
               {get_persona_voice(request.persona.name,
                                  IF Falsy(request.persona.communication_style) THEN ""
                                  ELSE request.persona.communication_style)} :
           \/ ~Falsy(OPENAI_API_KEY) /\ SynthesizeOk(selected_voice)
           \/ SynthesizeFailed(selected_voice)
    /\ pc' = "done"
    /\ UNCHANGED <<procvars, request, transcribed_text, is_leading_question,
                   is_vague_question, response_style, context, prompt, persona_response,
                   simvars, wsvars,
                   voicevars, ivvars, orchvars>>

\* The coroutine has returned: the framework sends the response and the
\* request's locals are gone.
Return ==
    /\ pc = "done"
    /\ pc' = "idle"
    /\ request' = NoRequest
    /\ UnitReset
    /\ UNCHANGED <<procvars, simvars, wsvars,
                   voicevars, ivvars, orchvars>>

(***************************************************************************)
(* voice_stream_websocket                                                  *)
(***************************************************************************)
\* What receive_json delivers: a JSON object (a dict) or another JSON value.
JsonObject(fields) == [json |-> "object", fields |-> fields]
JsonArray == [json |-> "array"]

\* The inbound units a client can send.
Inbound ==
    { JsonObject([type |-> "audio_chunk", audio |-> "UklGRg=="]),
      JsonObject([type |-> "audio_chunk"]),
      JsonObject([type |-> "end_conversation"]),
      JsonObject([type |-> "ping"]),
      JsonObject([audio |-> "UklGRg=="]),
      JsonArray }

\* How Whisper, Groq and the speech API answer while a unit is processed;
\* only an audio_chunk unit makes the handler call them.
Services == [stt : {"ok", "fail"}, llm : {"ok", "fail"}, tts : {"ok", "fail"}]

AllOk == [stt |-> "ok", llm |-> "ok", tts |-> "ok"]

NoFrame == [type |-> ""]

ErrorFrame == [type |-> "error", message |-> "Sorry, I didn't catch that. Could you repeat?"]

\* The dict literal the handler builds for every chunk.
demo_persona ==
    [name |-> "Sarah Chen",
     role |-> "Freelance Graphic Designer",
     demographics |-> "28, San Francisco, 5 years experience",
     pain_points |-> << "Manual invoice tracking", "Client follow-ups" >>,
     goals |-> << "Streamline workflow", "Focus on creative work" >>,
     personality_traits |-> << "Detail-oriented", "Creative" >>,
     communication_style |-> "Friendly but professional"]

WsCall(op, outcome) == [unit |-> Len(ws_in), op |-> op, outcome |-> outcome]

\* No connection has been accepted.
WsIdle ==
    /\ ws_pc = "none"
    /\ ws_in = <<>>
    /\ ws_data = JsonObject([type |-> ""])
    /\ ws_services = AllOk
    /\ ws_transcribed_text = ""
    /\ ws_calls = <<>>
    /\ ws_pending = NoFrame
    /\ ws_out = <<>>
    /\ ws_exit = ""
    /\ ws_closes = 0

\* await websocket.accept()
WsAccept ==
    /\ ws_pc = "none"
    /\ ws_pc' = "receive"
    /\ UNCHANGED <<procvars, unitvars, simvars, voicevars, ivvars, orchvars,
                   ws_in, ws_data, ws_services,
                   ws_transcribed_text, ws_calls, ws_pending, ws_out, ws_exit, ws_closes>>

\* data is a dict whose type is "audio_chunk".
WsIsChunk(data) == data.json = "object" /\ get(data.fields, "type", None) = "audio_chunk"

\* data.get("type") of the received value, which raises AttributeError
\* when the value is not a dict.
WsDispatch(data) ==
    IF data.json # "object"
    THEN ws_pc' = "close" /\ ws_exit' = "exception"
    ELSE IF get(data.fields, "type", None) = "audio_chunk"
    THEN ws_pc' = "transcribe" /\ UNCHANGED ws_exit
    ELSE IF get(data.fields, "type", None) = "end_conversation"
    THEN ws_pc' = "close" /\ ws_exit' = "end_conversation"
    ELSE ws_pc' = "receive" /\ UNCHANGED ws_exit

\* data = await websocket.receive_json(), and the dispatch on data's type.
\* receive_json raises WebSocketDisconnect when the client has gone.
WsReceive ==
    /\ ws_pc = "receive"
    /\ \/ /\ Len(ws_in) < MaxUnits
          /\ \E data \in Inbound, services \in Services :
                 /\ WsIsChunk(data) \/ services = AllOk
                 /\ ws_in' = Append(ws_in, data)
                 /\ ws_data' = data
                 /\ ws_services' = services
                 /\ WsDispatch(data)
       \/ /\ ws_pc' = "close"
          /\ ws_exit' = "disconnect"
          /\ UNCHANGED <<ws_in, ws_data, ws_services>>
    /\ UNCHANGED <<procvars, unitvars, simvars, voicevars, ivvars, orchvars,
                   ws_transcribed_text, ws_calls,
                   ws_pending, ws_out, ws_closes>>

\* transcribe_audio raised and the handler's inner except re-raises.
WsTranscribeFailed_Raises ==
    /\ ws_calls' = Append(ws_calls, WsCall("transcribe", "error"))
    /\ ws_pc' = "close"
    /\ ws_exit' = "exception"
    /\ UNCHANGED <<ws_transcribed_text, ws_pending>>

\* transcribe_audio raised: except Exception of the inner try.
WsTranscribeFailed ==
    /\ ws_calls' = Append(ws_calls, WsCall("transcribe", "error"))
    /\ ws_pending' = ErrorFrame
    /\ ws_pc' = "send"
    /\ UNCHANGED <<ws_transcribed_text, ws_exit>>

\* transcribe_audio returned.  The handler goes on synchronously to
\* demo_persona['conversation_history'], a key the dict does not have: the
\* KeyError is caught by the except Exception of the inner try, so the
\* statements between it and the except clause are never executed.
WsTranscribeOk(text) ==
    /\ ws_transcribed_text' = text
    /\ ws_calls' = Append(ws_calls, WsCall("transcribe", "success"))
    /\ "conversation_history" \notin DOMAIN demo_persona
    /\ ws_pending' = ErrorFrame
    /\ ws_pc' = "send"
    /\ UNCHANGED ws_exit

\* transcribed_text = await transcribe_audio(audio_base64)
WsTranscribe ==
    /\ ws_pc = "transcribe"
    /\ \E audio_base64 \in {get(ws_data.fields, "audio", None)} :
           IF Falsy(OPENAI_API_KEY) \/ audio_base64 = None \/ ws_services.stt = "fail"
           THEN WsTranscribeFailed
           ELSE \E text \in Transcripts : WsTranscribeOk(text)
    /\ UNCHANGED <<procvars, unitvars, simvars, voicevars, ivvars, orchvars,
                   ws_in, ws_data, ws_services, ws_out,
                   ws_closes>>

\* send_json with the frame put ahead of the frames sent before it.
WsSend_Unordered ==
    /\ ws_pc = "send"
    /\ \/ /\ ws_out' = << [unit |-> Len(ws_in), frame |-> ws_pending] >> \o ws_out
          /\ ws_pc' = "receive"
          /\ UNCHANGED ws_exit
       \/ /\ ws_pc' = "close"
          /\ ws_exit' = "disconnect"
          /\ UNCHANGED ws_out
    /\ ws_pending' = NoFrame
    /\ UNCHANGED <<procvars, unitvars, simvars, voicevars, ivvars, orchvars,
                   ws_in, ws_data, ws_services,
                   ws_transcribed_text, ws_calls, ws_closes>>

\* await websocket.send_json(...), which raises when the client has gone.
WsSend ==
    /\ ws_pc = "send"
    /\ \/ /\ ws_out' = Append(ws_out, [unit |-> Len(ws_in), frame |-> ws_pending])
          /\ ws_pc' = "receive"
          /\ UNCHANGED ws_exit
       \/ /\ ws_pc' = "close"
          /\ ws_exit' = "disconnect"
          /\ UNCHANGED ws_out
    /\ ws_pending' = NoFrame
    /\ UNCHANGED <<procvars, unitvars, simvars, voicevars, ivvars, orchvars,
                   ws_in, ws_data, ws_services,
                   ws_transcribed_text, ws_calls, ws_closes>>

\* The finally block also clears the OpenAI key of the process.
WsClose_ClearsKey ==
    /\ ws_pc = "close"
    /\ ws_closes' = ws_closes + 1
    /\ ws_pc' = "closed"
    /\ OPENAI_API_KEY' = None
    /\ UNCHANGED <<GROQ_API_KEY, hashseed, unitvars, simvars, voicevars, ivvars, orchvars,
                   ws_in, ws_data, ws_services,
                   ws_transcribed_text, ws_calls, ws_pending, ws_out, ws_exit>>

\* finally: await websocket.close()
WsClose ==
    /\ ws_pc = "close"
    /\ ws_closes' = ws_closes + 1
    /\ ws_pc' = "closed"
    /\ UNCHANGED <<procvars, unitvars, simvars, voicevars, ivvars, orchvars,
                   ws_in, ws_data, ws_services,
                   ws_transcribed_text, ws_calls, ws_pending, ws_out, ws_exit>>

(***************************************************************************)
(* Direct calls of get_persona_voice                                       *)
(***************************************************************************)
\* Persona names a caller can pass.
VoiceNames ==
    {"Sarah", "Sarah Chen", "EMMA STONE", "Marcus Lee", "Alexandra Kim", "Anna Johnson",
     "Priya Patel", ""}

\* Communication styles a caller can pass (None is passed as "").
VoiceStyles ==
    {"professional", "Formal", "Friendly but professional", "Creative and artistic",
     "artistic", "friendly", "Technical and analytical", "casual", "blunt", ""}

VoiceIdle ==
    /\ voice_name = ""
    /\ voice_style = ""
    /\ voice_results = <<>>

\* get_persona_voice(voice_name, voice_style) is called; the last two
\* results are kept.
VoiceCall ==
    /\ \E voice \in {get_persona_voice(voice_name, voice_style)} :
           voice_results' = IF Len(voice_results) < 2 THEN Append(voice_results, voice)
                            ELSE << voice_results[2], voice >>
    /\ UNCHANGED <<procvars, unitvars, simvars, wsvars, ivvars, orchvars, voice_name,
                   voice_style>>

(***************************************************************************)
(* conduct_interview and voice_interview                                   *)
(***************************************************************************)
\* The code-fence marker of the completion texts.  It is three backquotes
\* in the source; a TLA+ string cannot hold a backquote, so the marker is
\* written with tildes here, in the texts and in the tests alike.
Fence == "~~~"

\* The clean-up of the completion text before it is parsed.  Find is the
\* index of the first occurrence of sep in s (0 when there is none),
\* SplitHead is s.split(sep)[0] and SplitSecond is s.split(sep)[1] for an s
\* that contains sep.
CleanUp(raw_response) ==
    LET Find(s, sep) ==
            LET hits == {i \in 1 .. (Len(s) - Len(sep) + 1) :
                            SubSeq(s, i, i + Len(sep) - 1) = sep}
            IN  IF hits = {} THEN 0 ELSE CHOOSE i \in hits : \A j \in hits : i <= j
        SplitHead(s, sep) == IF Find(s, sep) = 0 THEN s ELSE SubSeq(s, 1, Find(s, sep) - 1)
        SplitTail(s, sep) == SubSeq(s, Find(s, sep) + Len(sep), Len(s))
        SplitSecond(s, sep) == SplitHead(SplitTail(s, sep), sep)
    IN
    IF Contains(raw_response, Fence \o "json")
    THEN strip(SplitHead(SplitSecond(raw_response, Fence \o "json"), Fence))
    ELSE IF Contains(raw_response, Fence)
    THEN strip(SplitSecond(raw_response, Fence))
    ELSE raw_response

DocOngoing ==
    "{\"persona_response\": \"Invoices, mostly.\", \"suggested_questions\": [\"Why?\", \"How often?\"], \"conversation_status\": \"ongoing\"}"
DocCompleted ==
    "{\"persona_response\": \"I have to go.\", \"suggested_questions\": [], \"conversation_status\": \"completed\"}"
DocPaused ==
    "{\"persona_response\": \"Hold on.\", \"suggested_questions\": [\"Still there?\"], \"conversation_status\": \"paused\"}"
DocNoQuestions ==
    "{\"persona_response\": \"Invoices, mostly.\", \"conversation_status\": \"ongoing\"}"

\* json.loads of the texts that are JSON objects; every other text of the
\* model is a JSON value of another type or no JSON at all.
JsonObjects ==
    (DocOngoing :> [persona_response |-> "Invoices, mostly.",
                    suggested_questions |-> << "Why?", "How often?" >>,
                    conversation_status |-> "ongoing"])
    @@ (DocCompleted :> [persona_response |-> "I have to go.",
                         suggested_questions |-> <<>>,
                         conversation_status |-> "completed"])
    @@ (DocPaused :> [persona_response |-> "Hold on.",
                      suggested_questions |-> << "Still there?" >>,
                      conversation_status |-> "paused"])
    @@ (DocNoQuestions :> [persona_response |-> "Invoices, mostly.",
                           conversation_status |-> "ongoing"])

\* What call_groq can return for the interview prompt (already stripped).
InterviewCompletions ==
    {DocOngoing,
     Fence \o "json\n" \o DocOngoing \o "\n" \o Fence,
     "Here you go:\n" \o Fence \o "\n" \o DocCompleted \o "\n" \o Fence \o "\nAnything else?",
     Fence \o "JSON\n" \o DocOngoing \o "\n" \o Fence,
     DocCompleted,
     DocPaused,
     DocNoQuestions,
     "[]",
     "Invoices, mostly.",
     ""}

InterviewAIResponse(text, questions, conversation_status) ==
    [status |-> 200,
     persona_response |-> text,
     suggested_questions |-> questions,
     conversation_status |-> conversation_status]

ValidationError == [status |-> -1]

\* InterviewAIResponse.parse_raw: the text must be a JSON object with the
\* three fields of the model.
parse_raw(text) ==
    IF text \in DOMAIN JsonObjects
       /\ {"persona_response", "suggested_questions", "conversation_status"}
              \subseteq DOMAIN JsonObjects[text]
    THEN InterviewAIResponse(JsonObjects[text].persona_response,
                             JsonObjects[text].suggested_questions,
                             JsonObjects[text].conversation_status)
    ELSE ValidationError

\* The fallback answered with one generic sentence.
create_contextual_response_Generic(req) ==
    InterviewAIResponse("That's an interesting question. Could you tell me more?",
                        << "What inspired you to focus on this particular problem?",
                           "How does your solution differ from existing alternatives?" >>,
                        "ongoing")

\* create_contextual_response() for the request of conduct_interview.
create_contextual_response(req) ==
    LET main_pain == IF Len(req.persona.pain_points) > 0 THEN req.persona.pain_points[1]
                     ELSE "time management"
        main_goal == IF Len(req.persona.goals) > 0 THEN req.persona.goals[1]
                     ELSE "efficiency"
    IN  IF Contains(lower(req.user_message), "biggest challenge")
        THEN InterviewAIResponse(
                 "As a " \o req.persona.role \o ", my biggest challenge is " \o main_pain
                 \o ". When it comes to " \o req.idea
                 \o ", this is particularly frustrating because it directly impacts my "
                 \o main_goal \o ".",
                 << "How would your solution specifically address this pain point?",
                    "What kind of time savings could I expect?" >>,
                 "ongoing")
        ELSE InterviewAIResponse(
                 "Let me share my perspective as a " \o req.persona.role \o ". Currently, "
                 \o main_pain
                 \o " is a major challenge for me, and I'm always looking for solutions that could help with "
                 \o main_goal \o ".",
                 << "What inspired you to focus on this particular problem?",
                    "How does your solution differ from existing alternatives?" >>,
                 "ongoing")

InterviewAIRequest(idea, persona, history, user_message) ==
    [idea |-> idea, persona |-> persona, conversation_history |-> history,
     user_message |-> user_message]

\* The requests POST /interview is called with.
InterviewRequests ==
    [idea : {"Invoice tracking for freelancers"},
     persona : Personas,
     conversation_history : {<<>>, << "user: Hi", "persona: Hi. What's this about?" >>},
     user_message : {"What's your biggest challenge?", "WHAT IS YOUR BIGGEST CHALLENGE",
                     "Hello", ""}]

IvIdle ==
    /\ iv_pc = "idle"
    /\ iv_entry = ""
    /\ iv_voice_request = NoRequest
    /\ iv_request = InterviewAIRequest("", NoPersona, <<>>, "")
    /\ iv_text_response = NoResponse
    /\ iv_response = NoResponse
    /\ iv_calls = <<>>

\* voice_interview builds the InterviewAIRequest of the transcribed text;
\* item['role'] or item['message'] raises KeyError for an item without the
\* key, which the except clause answers with an HTTP 500.
IvBuildTextRequest(voice_request, text) ==
    IF \E i \in 1 .. Len(voice_request.conversation_history) :
           ~({"role", "message"} \subseteq DOMAIN voice_request.conversation_history[i])
    THEN /\ iv_response' = HTTPException(500)
         /\ iv_pc' = "done"
         /\ UNCHANGED iv_request
    ELSE /\ iv_request' = InterviewAIRequest(
                              "Voice interview", voice_request.persona,
                              [i \in 1 .. Len(voice_request.conversation_history) |->
                                  voice_request.conversation_history[i].role \o ": "
                                  \o voice_request.conversation_history[i].message],
                              text)
         /\ iv_pc' = "groq"
         /\ UNCHANGED iv_response

\* POST /interview or POST /voice-interview is entered with a validated request.
IvReceive ==
    /\ iv_pc = "idle"
    /\ \/ /\ iv_entry' = "interview"
          /\ \E req \in InterviewRequests : iv_request' = req
          /\ iv_pc' = "groq"
          /\ UNCHANGED <<iv_voice_request, iv_response>>
       \/ /\ iv_entry' = "voice"
          /\ \E req \in Requests :
                 /\ iv_voice_request' = req
                 /\ IF Falsy(req.audio_file)
                    THEN IvBuildTextRequest(req, "")
                    ELSE iv_pc' = "transcribe" /\ UNCHANGED <<iv_request, iv_response>>
    /\ UNCHANGED <<procvars, unitvars, simvars, wsvars, voicevars, orchvars,
                   iv_text_response, iv_calls>>

\* transcribed_text = await transcribe_audio(request.audio_file)
IvTranscribe ==
    /\ iv_pc = "transcribe"
    /\ \/ /\ iv_calls' = Append(iv_calls, Call("transcribe", "error", ""))
          /\ iv_response' = HTTPException(500)
          /\ iv_pc' = "done"
          /\ UNCHANGED iv_request
       \/ /\ ~Falsy(OPENAI_API_KEY)
          /\ \E text \in Transcripts :
                 /\ iv_calls' = Append(iv_calls, Call("transcribe", "success", text))
                 /\ IvBuildTextRequest(iv_voice_request, text)
    /\ UNCHANGED <<procvars, unitvars, simvars, wsvars, voicevars, orchvars, iv_entry,
                   iv_voice_request, iv_text_response>>

\* call_groq returned: the clean-up and the parse, with the contextual
\* fallback of the inner except clause.
IvGroqReturned(raw_response) ==
    \E parsed \in {parse_raw(CleanUp(raw_response))} :
        IF parsed = ValidationError
        THEN /\ iv_calls' = iv_calls \o << Call("groq", "success", raw_response),
                                           Call("parse", "error", "") >>
             /\ iv_text_response' = create_contextual_response(iv_request)
        ELSE /\ iv_calls' = iv_calls \o << Call("groq", "success", raw_response),
                                           Call("parse", "success", "") >>
             /\ iv_text_response' = parsed

\* raw_response = await call_groq(prompt, system_prompt), to the return of
\* conduct_interview; when call_groq raises, the contextual fallback of the
\* outer except clause.
IvCallGroq ==
    /\ iv_pc = "groq"
    /\ \/ /\ ~Falsy(GROQ_API_KEY)
          /\ \E content \in InterviewCompletions : IvGroqReturned(content)
       \/ \E failure \in ProviderFailures(GROQ_API_KEY) :
              /\ iv_calls' = Append(iv_calls, Call("groq", failure, ""))
              /\ iv_text_response' = create_contextual_response(iv_request)
    /\ IF iv_entry = "interview"
       THEN iv_response' = iv_text_response' /\ iv_pc' = "done"
       ELSE iv_pc' = "tts" /\ UNCHANGED iv_response
    /\ UNCHANGED <<procvars, unitvars, simvars, wsvars, voicevars, orchvars, iv_entry,
                   iv_voice_request, iv_request>>

\* audio_base64 = await synthesize_speech(text_response.persona_response),
\* and the return of voice_interview.
IvSynthesize ==
    /\ iv_pc = "tts"
    /\ \/ /\ ~Falsy(OPENAI_API_KEY)
          /\ iv_calls' = Append(iv_calls, Call("tts", "success", "nova"))
          /\ iv_response' =
                 [status |-> 200,
                  persona_response |-> iv_text_response.persona_response,
                  persona_audio_url |-> "data:audio/mp3;base64,"
                                            \o AudioOf(iv_text_response.persona_response),
                  transcribed_user_message |-> iv_request.user_message,
                  suggested_questions |-> iv_text_response.suggested_questions,
                  conversation_status |-> iv_text_response.conversation_status]
       \/ /\ iv_calls' = Append(iv_calls, Call("tts", "error", "nova"))
          /\ iv_response' = HTTPException(500)
    /\ iv_pc' = "done"
    /\ UNCHANGED <<procvars, unitvars, simvars, wsvars, voicevars, orchvars, iv_entry,
                   iv_voice_request, iv_request, iv_text_response>>

\* The coroutine has returned and the request's locals are gone.
IvReturn ==
    /\ iv_pc = "done"
    /\ iv_pc' = "idle"
    /\ iv_entry' = ""
    /\ iv_voice_request' = NoRequest
    /\ iv_request' = InterviewAIRequest("", NoPersona, <<>>, "")
    /\ iv_text_response' = NoResponse
    /\ iv_response' = NoResponse
    /\ iv_calls' = <<>>
    /\ UNCHANGED <<procvars, unitvars, simvars, wsvars, voicevars, orchvars>>

(***************************************************************************)
(* orchestrator                                                            *)
(***************************************************************************)
OrchDocPersonas ==
    "{\"step\": \"personas\", \"result\": {\"personas\": []}, \"next_step\": \"interview\", \"progress\": 0.25}"
OrchDocMarket ==
    "{\"step\": \"market\", \"result\": {\"trends\": []}, \"next_step\": \"complete\", \"progress\": 1.0}"
OrchDocNoProgress ==
    "{\"step\": \"personas\", \"result\": {\"personas\": []}, \"next_step\": \"interview\"}"

\* json.loads of the texts that are JSON objects, with progress in percent.
OrchJsonObjects ==
    (OrchDocPersonas :> [step |-> "personas", result |-> [personas |-> <<>>],
                         next_step |-> "interview", progress |-> 25])
    @@ (OrchDocMarket :> [step |-> "market", result |-> [trends |-> <<>>],
                          next_step |-> "complete", progress |-> 100])
    @@ (OrchDocNoProgress :> [step |-> "personas", result |-> [personas |-> <<>>],
                              next_step |-> "interview"])

\* What call_claude can return (already stripped).
OrchCompletions ==
    {OrchDocPersonas,
     OrchDocMarket,
     OrchDocNoProgress,
     Fence \o "json\n" \o OrchDocPersonas \o "\n" \o Fence,
     "Here are the personas you asked for."}

\* raise HTTPException(code, detail=...)
HTTPError(code, detail) == [status |-> code, detail |-> detail]

\* The requests POST /orchestrator is called with.
OrchRequests ==
    [idea : {"Invoice tracking for freelancers", "Reservations for restaurants", ""},
     step : {"personas", "market", "interview", "coach", "Personas", ""}]

OrchIdle ==
    /\ ANTHROPIC_API_KEY = None
    /\ orch_pc = "idle"
    /\ orch_request = [idea |-> "", step |-> ""]
    /\ orch_response = NoResponse
    /\ orch_calls = <<>>

\* else: raise HTTPException(400, ...) inside the try: HTTPException is an
\* Exception, so the except clause of the same try catches it and raises
\* the 500.  Its detail is str(e), which is the status and detail of the 400
\* or the empty string, depending on the installed Starlette.
OrchUnknownStep(step) ==
    /\ \E detail \in {"400: Unknown step: " \o step, ""} :
           orch_response' = HTTPError(500, detail)
    /\ orch_pc' = "done"

\* POST /orchestrator is entered with a validated request; the dispatch on
\* request.step up to the first await.
OrchReceive ==
    /\ orch_pc = "idle"
    /\ \E req \in OrchRequests :
           /\ orch_request' = req
           /\ IF req.step \in {"personas", "market"}
              THEN orch_pc' = "claude" /\ UNCHANGED orch_response
              ELSE OrchUnknownStep(req.step)
    /\ UNCHANGED <<procvars, unitvars, simvars, wsvars, voicevars, ivvars,
                   ANTHROPIC_API_KEY, orch_calls>>

\* raw_response = await call_claude(prompt, system_prompt) and
\* return OrchestratorResponse.parse_raw(raw_response): the text must be a
\* JSON object with the four fields of the model.
OrchCallClaude ==
    /\ orch_pc = "claude"
    /\ \/ /\ ~Falsy(ANTHROPIC_API_KEY)
          /\ \E raw_response \in OrchCompletions :
                 IF /\ raw_response \in DOMAIN OrchJsonObjects
                    /\ {"step", "result", "next_step", "progress"}
                           \subseteq DOMAIN OrchJsonObjects[raw_response]
                 THEN /\ orch_calls' = orch_calls \o << Call("claude", "success", raw_response),
                                                       Call("parse", "success", "") >>
                      /\ orch_response' =
                             [status |-> 200,
                              step |-> OrchJsonObjects[raw_response].step,
                              next_step |-> OrchJsonObjects[raw_response].next_step,
                              progress |-> OrchJsonObjects[raw_response].progress]
                 ELSE /\ orch_calls' = orch_calls \o << Call("claude", "success", raw_response),
                                                       Call("parse", "error", "") >>
                      /\ orch_response' = HTTPError(500, "validation error")
       \/ \E failure \in ProviderFailures(ANTHROPIC_API_KEY) :
              /\ orch_calls' = Append(orch_calls, Call("claude", failure, ""))
              /\ orch_response' = HTTPError(500, failure)
    /\ orch_pc' = "done"
    /\ UNCHANGED <<procvars, unitvars, simvars, wsvars, voicevars, ivvars,
                   ANTHROPIC_API_KEY, orch_request>>

\* The coroutine has returned and the request's locals are gone.
OrchReturn ==
    /\ orch_pc = "done"
    /\ orch_pc' = "idle"
    /\ orch_request' = [idea |-> "", step |-> ""]
    /\ orch_response' = NoResponse
    /\ orch_calls' = <<>>
    /\ UNCHANGED <<procvars, unitvars, simvars, wsvars, voicevars, ivvars,
                   ANTHROPIC_API_KEY>>

(***************************************************************************)
(* Process start, and direct calls of the simulator                        *)
(***************************************************************************)
\* The server process is started anew in the same environment: the keys
\* are read again and the interpreter draws a fresh hash seed.
Restart ==
    /\ pc = "idle"
    /\ UNCHANGED <<GROQ_API_KEY, OPENAI_API_KEY>>
    /\ hashseed' \in Seeds
    /\ pc' = "idle"
    /\ request' = NoRequest
    /\ UnitReset
    /\ sim_restarted' = (Len(sim_replies) > 0)
    /\ UNCHANGED <<sim_user_message, sim_persona, sim_replies, wsvars,
                   voicevars, ivvars, orchvars>>

\* generate_offline_persona_response(sim_user_message, sim_persona) is called;
\* the last two results are kept, each with whether the process was
\* restarted since the call before it.
SimCall ==
    /\ pc = "idle"
    /\ sim_user_message # None
    /\ \E entry \in {[reply |-> generate_offline_persona_response(sim_user_message,
                                                                     sim_persona),
                        restarted |-> sim_restarted]} :
           sim_replies' = IF Len(sim_replies) < 2 THEN Append(sim_replies, entry)
                          ELSE << sim_replies[2], entry >>
    /\ sim_restarted' = FALSE
    /\ UNCHANGED <<procvars, unitvars, sim_user_message, sim_persona, wsvars,
                   voicevars, ivvars, orchvars>>

ProcInit ==
    /\ GROQ_API_KEY \in KeyValues
    /\ OPENAI_API_KEY \in KeyValues
    /\ hashseed \in Seeds

UnitInit ==
    /\ pc = "idle"
    /\ request = NoRequest
    /\ transcribed_text = ""
    /\ is_leading_question = FALSE
    /\ is_vague_question = FALSE
    /\ response_style = ""
    /\ context = ""
    /\ prompt = ""
    /\ persona_response = None
    /\ calls = <<>>
    /\ response = NoResponse

\* The server after start-up, serving /voice-interview-realtime.
Init ==
    /\ ProcInit
    /\ UnitInit
    /\ sim_user_message = None
    /\ sim_persona = NoPersona
    /\ sim_replies = <<>>
    /\ sim_restarted = FALSE
    /\ WsIdle
    /\ VoiceIdle
    /\ IvIdle
    /\ OrchIdle

Next ==
    \/ Receive
    \/ Transcribe
    \/ Compose
    \/ CallGroq
    \/ CallOpenAI
    \/ Synthesize
    \/ Return
    \/ Restart

Spec == Init /\ [][Next]_vars

\* The handler's own steps: once entered, the coroutine is run to its return.
HandlerStep == Transcribe \/ Compose \/ CallGroq \/ CallOpenAI \/ Synthesize

FairSpec == Spec /\ WF_vars(HandlerStep)

\* The simulator called directly on inputs drawn from the bounded sets.
SimInit ==
    /\ GROQ_API_KEY = None
    /\ OPENAI_API_KEY = None
    /\ hashseed \in Seeds
    /\ UnitInit
    /\ sim_user_message \in SimUtterances
    /\ sim_persona \in Personas
    /\ sim_replies = <<>>
    /\ sim_restarted = FALSE
    /\ WsIdle
    /\ VoiceIdle
    /\ IvIdle
    /\ OrchIdle

SimNext ==
    \/ SimCall
    \/ Restart

SimSpec == SimInit /\ [][SimNext]_vars

\* The server serving one /voice-stream connection.  The session handler
\* hashes no string, so one seed stands for all.
WsInit ==
    /\ GROQ_API_KEY \in KeyValues
    /\ OPENAI_API_KEY \in KeyValues
    /\ hashseed = 0
    /\ UnitInit
    /\ sim_user_message = None
    /\ sim_persona = NoPersona
    /\ sim_replies = <<>>
    /\ sim_restarted = FALSE
    /\ WsIdle
    /\ VoiceIdle
    /\ IvIdle
    /\ OrchIdle

WsNext ==
    \/ WsAccept
    \/ WsReceive
    \/ WsTranscribe
    \/ WsSend
    \/ WsClose

WsSpec == WsInit /\ [][WsNext]_vars

\* get_persona_voice called directly on inputs drawn from the bounded sets.
VoiceInit ==
    /\ GROQ_API_KEY = None
    /\ OPENAI_API_KEY = None
    /\ hashseed = 0
    /\ UnitInit
    /\ sim_user_message = None
    /\ sim_persona = NoPersona
    /\ sim_replies = <<>>
    /\ sim_restarted = FALSE
    /\ WsIdle
    /\ voice_name \in VoiceNames
    /\ voice_style \in VoiceStyles
    /\ voice_results = <<>>
    /\ IvIdle
    /\ OrchIdle

VoiceSpec == VoiceInit /\ [][VoiceCall]_vars

\* The server serving /interview and /voice-interview.
IvInit ==
    /\ GROQ_API_KEY \in KeyValues
    /\ OPENAI_API_KEY \in KeyValues
    /\ hashseed = 0
    /\ UnitInit
    /\ sim_user_message = None
    /\ sim_persona = NoPersona
    /\ sim_replies = <<>>
    /\ sim_restarted = FALSE
    /\ WsIdle
    /\ VoiceIdle
    /\ IvIdle
    /\ OrchIdle

IvNext ==
    \/ IvReceive
    \/ IvTranscribe
    \/ IvCallGroq
    \/ IvSynthesize
    \/ IvReturn

IvSpec == IvInit /\ [][IvNext]_vars

\* The server serving /orchestrator.
OrchInit ==
    /\ GROQ_API_KEY \in KeyValues
    /\ OPENAI_API_KEY \in KeyValues
    /\ hashseed = 0
    /\ UnitInit
    /\ sim_user_message = None
    /\ sim_persona = NoPersona
    /\ sim_replies = <<>>
    /\ sim_restarted = FALSE
    /\ WsIdle
    /\ VoiceIdle
    /\ IvIdle
    /\ ANTHROPIC_API_KEY \in KeyValues
    /\ orch_pc = "idle"
    /\ orch_request = [idea |-> "", step |-> ""]
    /\ orch_response = NoResponse
    /\ orch_calls = <<>>

OrchNext ==
    \/ OrchReceive
    \/ OrchCallClaude
    \/ OrchReturn

OrchSpec == OrchInit /\ [][OrchNext]_vars

\* The requests, transcripts and inbound values of the two concurrent
\* sessions.
ConcRequests ==
    [persona : {SarahChen},
     audio_file : {"", "UklGRg=="},
     conversation_history : {<<>>, << Turn("persona", "Hi. What's this about?") >>}]

ConcTranscripts == {"", "Don't you think this is great?"}

\* One server process serving a /voice-interview-realtime request and a
\* /voice-stream connection at the same time: the event loop runs either
\* coroutine from one await to its next, in any order.
ConcInit ==
    /\ GROQ_API_KEY \in KeyValues
    /\ OPENAI_API_KEY \in KeyValues
    /\ hashseed = 0
    /\ UnitInit
    /\ sim_user_message = None
    /\ sim_persona = NoPersona
    /\ sim_replies = <<>>
    /\ sim_restarted = FALSE
    /\ WsIdle
    /\ VoiceIdle
    /\ IvIdle
    /\ OrchIdle

ConcReceive == Receive /\ request' \in ConcRequests

ConcTranscribe == Transcribe /\ transcribed_text' \in ConcTranscripts

ConcWsReceive ==
    /\ WsReceive
    /\ \/ ws_data' = ws_data
       \/ ws_data' \in { JsonObject([type |-> "audio_chunk", audio |-> "UklGRg=="]),
                          JsonObject([type |-> "end_conversation"]),
                          JsonObject([type |-> "ping"]) }
    /\ ws_services' \in {AllOk, [AllOk EXCEPT !.stt = "fail"]}

ConcWsTranscribe == WsTranscribe /\ ws_transcribed_text' \in ConcTranscripts

ConcNext ==
    \/ ConcReceive
    \/ ConcTranscribe
    \/ Compose
    \/ CallGroq
    \/ CallOpenAI
    \/ Synthesize
    \/ Return
    \/ WsAccept
    \/ ConcWsReceive
    \/ ConcWsTranscribe
    \/ WsSend
    \/ WsClose

ConcSpec == ConcInit /\ [][ConcNext]_vars

(***************************************************************************)
(* Vocabulary of the properties                                            *)
(***************************************************************************)
Range(seq) == {seq[i] : i \in 1 .. Len(seq)}

Done == pc = "done"

\* The completion attempts of the unit: the calls of the two providers.
IsAttempt(call) == call.op \in {"groq", "openai"}

\* A provider call that delivered a completion text.
Delivered(call) == IsAttempt(call) /\ call.outcome \in {"success", "policy_rejected"}

\* The keyword test that guards each topic bucket of the simulator.
BucketMatches(bucket, user_message) ==
    LET user_lower == lower(user_message)
    IN  CASE bucket = "leading_pushback" -> ContainsAny(user_lower, SimLeadingPhrases)
          [] bucket = "vague_clarify" ->
                ContainsAny(user_lower, SimVaguePhrases) /\ WordCount(user_message) < 8
          [] bucket = "greeting" -> ContainsAny(user_lower, GreetingWords)
          [] bucket = "pain_or_problem" -> ContainsAny(user_lower, PainWords)
          [] bucket = "solution_or_product" -> ContainsAny(user_lower, SolutionWords)
          [] bucket = "pricing" -> ContainsAny(user_lower, PricingWords)
          [] bucket = "time_or_efficiency" -> ContainsAny(user_lower, TimeWords)
          [] bucket = "competition" -> ContainsAny(user_lower, CompetitionWords)
          [] bucket = "default" -> TRUE

\* The template list each topic bucket owns.
BucketTemplates(bucket, persona) ==
    CASE bucket = "leading_pushback" -> LeadingResponses
      [] bucket = "vague_clarify" -> VagueResponses
      [] bucket = "greeting" -> GreetingResponses(persona.name)
      [] bucket = "pain_or_problem" -> PainResponses(persona)
      [] bucket = "solution_or_product" -> SolutionResponses
      [] bucket = "pricing" -> PricingResponses
      [] bucket = "time_or_efficiency" -> TimeResponses
      [] bucket = "competition" -> CompetitionResponses
      [] bucket = "default" -> DefaultResponses

Buckets ==
    {"leading_pushback", "vague_clarify", "greeting", "pain_or_problem",
     "solution_or_product", "pricing", "time_or_efficiency", "competition", "default"}

\* The first bucket of a priority order whose keyword test the utterance passes.
FirstMatch(order, user_message) ==
    order[CHOOSE i \in 1 .. Len(order) :
              /\ BucketMatches(order[i], user_message)
              /\ \A j \in 1 .. (i - 1) : ~BucketMatches(order[j], user_message)]

GreetingFirstOrder ==
    << "greeting", "leading_pushback", "vague_clarify", "pain_or_problem",
       "solution_or_product", "pricing", "time_or_efficiency", "competition", "default" >>

LeadingFirstOrder ==
    << "leading_pushback", "vague_clarify", "greeting", "pain_or_problem",
       "solution_or_product", "pricing", "time_or_efficiency", "competition", "default" >>

\* The replies of the direct simulator calls.
SimReplies == {sim_replies[i].reply : i \in 1 .. Len(sim_replies)}

(***************************************************************************)
(* Properties                                                              *)
(***************************************************************************)

\* C1: a completion text that contains one of the policy filter's refusal
\* markers (case-insensitively) is never returned as persona_response,
\* whether Groq or OpenAI produced it.
C1_RefusalNeverReturned ==
    Done =>
        \A i \in 1 .. Len(calls) :
            (Delivered(calls[i]) /\ IsPolicyRefusal(calls[i].text))
                => response.persona_response # calls[i].text

\* C2: when the Groq call fails and the OpenAI call succeeds with a text
\* containing a policy-refusal phrase, the returned persona_response equals
\* generate_offline_persona_response(utterance, persona).
C2_FallbackEquivalence ==
    (/\ Done
     /\ \E i \in 1 .. Len(calls) :
            calls[i].op = "groq" /\ calls[i].outcome \in {"unconfigured", "timeout", "error"}
     /\ \E i \in 1 .. Len(calls) :
            calls[i].op = "openai" /\ Delivered(calls[i]) /\ IsPolicyRefusal(calls[i].text))
        => response.persona_response
               = generate_offline_persona_response(transcribed_text, request.persona)

\* C3: a Groq text rejected by the policy filter advances the chain to
\* OpenAI as a failed Groq call does, and the simulator produces the reply
\* of the chain only after both providers have been attempted.
C3_RejectionAdvancesToOpenAI ==
    \A i \in 1 .. Len(calls) :
        /\ (calls[i].op = "groq" /\ calls[i].outcome = "policy_rejected" /\ i < Len(calls))
               => calls[i + 1].op = "openai"
        /\ (calls[i].op = "simulator" /\ \E j \in 1 .. (i - 1) : IsAttempt(calls[j]))
               => \E j \in 1 .. (i - 1) : calls[j].op = "openai"

\* C4: every unit terminates with exactly one VoiceInterviewResponse that
\* carries a persona_response, whatever the outcomes of transcription, the
\* providers and synthesis, and also when building the prompt raises; it is
\* never answered with an HTTP error.
C4_AlwaysOneResponse ==
    /\ [](Done => /\ response.status = 200
                  /\ response.persona_response \notin {None, IndexError})
    /\ [](~Done => response = NoResponse)
    /\ (pc = "start") ~> Done

C4_Witness ==
    /\ Done
    /\ ContextRaises(request.conversation_history)
    /\ response.status = 200

\* C5: the persona_response returned for a unit is never the empty string,
\* also when a provider succeeds with an empty or whitespace-only completion.
C5_ReplyNeverEmpty ==
    Done => response.persona_response # ""

\* C6: two calls of the simulator with identical utterance and persona return
\* identical strings, within one process and across process restarts.
C6_SimulatorDeterministic ==
    Len(sim_replies) = 2 => sim_replies[1].reply = sim_replies[2].reply

\* C7: the simulator cannot fail: for every utterance, the empty one
\* included, and every persona, without pain points included, the reply is
\* a template of a bucket the utterance matches; the index is within the
\* list for every hash value, negative ones included.
C7_SimulatorTotal ==
    \A reply \in SimReplies :
        /\ reply # IndexError
        /\ \E bucket \in Buckets :
               /\ BucketMatches(bucket, sim_user_message)
               /\ reply \in Range(BucketTemplates(bucket, sim_persona))

C7_Witness ==
    /\ Len(sim_replies) > 0
    /\ ~sim_restarted
    /\ hash(sim_user_message) < 0 - Len(DefaultResponses)
    /\ sim_persona.pain_points = <<>>

\* C8: for an utterance of the pain_or_problem bucket and a persona with a
\* non-empty pain_points list, the simulated reply contains the first pain
\* point verbatim and the persona's role, whichever template is selected.
C8_PainReplyNamesPainPointAndRole ==
    (/\ FirstMatch(LeadingFirstOrder, sim_user_message) = "pain_or_problem"
     /\ FirstMatch(GreetingFirstOrder, sim_user_message) = "pain_or_problem"
     /\ Len(sim_persona.pain_points) > 0)
        => \A reply \in SimReplies :
               /\ Contains(reply, sim_persona.pain_points[1])
               /\ Contains(lower(reply), lower(sim_persona.role))

\* C9 (as claimed): every utterance is answered from the first bucket it
\* matches in the order greeting, leading_pushback, vague_clarify,
\* pain_or_problem, solution_or_product, pricing, time_or_efficiency,
\* competition, default.
C9_GreetingFirst ==
    \A reply \in SimReplies :
        reply \in Range(BucketTemplates(FirstMatch(GreetingFirstOrder, sim_user_message),
                                        sim_persona))

\* C9 (amended): every utterance is answered from the first bucket it
\* matches in the order leading_pushback, vague_clarify, greeting,
\* pain_or_problem, solution_or_product, pricing, time_or_efficiency,
\* competition, default; an utterance that matches both the greeting
\* keywords and a leading phrase is answered from leading_pushback.
C9_LeadingFirst ==
    \A reply \in SimReplies :
        reply \in Range(BucketTemplates(FirstMatch(LeadingFirstOrder, sim_user_message),
                                        sim_persona))

C9_Witness ==
    /\ Len(sim_replies) > 0
    /\ BucketMatches("greeting", sim_user_message)
    /\ BucketMatches("leading_pushback", sim_user_message)

\* C10: every utterance that the question classifier labels leading and
\* that matches no greeting keyword is answered by the simulator with a
\* leading_pushback template.
C10_SimulatorReusesLeadingSet ==
    (IsLeadingQuestion(sim_user_message) /\ ~BucketMatches("greeting", sim_user_message))
        => \A reply \in SimReplies : reply \in Range(LeadingResponses)

\* The synchronous stretch has just built the turn prompt of the unit; the
\* locals it set are not assigned again before the unit ends.
Composed == pc = "groq"

\* The utterance contains one of the classifier's leading phrases.
HasLeadingPhrase(text) == \E phrase \in LeadingPhrases : Contains(lower(text), phrase)

\* C11: an utterance that contains a leading phrase is classified leading
\* whatever its word count and whatever vague or good-behavioral phrases it
\* also contains; its turn prompt carries the push-back directive and
\* neither the vague nor the normal directive.
C11_LeadingTakesPriority ==
    (Composed /\ HasLeadingPhrase(transcribed_text))
        => /\ is_leading_question
           /\ response_style = LeadingStyle
           /\ Contains(prompt, LeadingStyle)
           /\ ~Contains(prompt, VagueStyle)
           /\ ~Contains(prompt, NormalStyle)

C11_Witness ==
    /\ Composed
    /\ HasLeadingPhrase(transcribed_text)
    /\ WordCount(transcribed_text) < 8
    /\ ContainsAny(lower(transcribed_text), vague_patterns)
    /\ ~ContainsAny(lower(transcribed_text), good_question_patterns)

\* C12: an utterance without a leading phrase that contains a good
\* behavioral phrase is never classified vague, also when it has fewer than
\* 8 words and contains a vague phrase; the vague directive is not selected.
C12_GoodQuestionNeverVague ==
    (/\ Composed
     /\ ~HasLeadingPhrase(transcribed_text)
     /\ ContainsAny(lower(transcribed_text), good_question_patterns))
        => /\ ~is_vague_question
           /\ response_style = NormalStyle
           /\ ~Contains(prompt, VagueStyle)

C12_Witness ==
    /\ Composed
    /\ ~HasLeadingPhrase(transcribed_text)
    /\ ContainsAny(lower(transcribed_text), good_question_patterns)
    /\ WordCount(transcribed_text) < 8
    /\ ContainsAny(lower(transcribed_text), vague_patterns)

\* C13: the turn prompt's conversation block is the last 6 turns of the
\* history in their original order: of n > 6 turns exactly the n - 6 oldest
\* are dropped, of n <= 6 turns all are included.
C13_LastSixTurns ==
    Composed =>
        LET history == request.conversation_history
            n == Len(history)
            dropped == IF n > 6 THEN n - 6 ELSE 0
        IN  /\ context = JoinLines(SubSeq(history, dropped + 1, n), request.persona.name)
            /\ Contains(prompt, "Conversation so far:\n" \o context \o "\n\nFounder just said")
            /\ \A i \in 1 .. dropped :
                   ~Contains(context, ContextLine(history[i], request.persona.name))

C13_Witness ==
    /\ Composed
    /\ Len(request.conversation_history) = 8
    /\ context = JoinLines(SubSeq(LongHistory, 3, 8), request.persona.name)

\* C14: a provider without a key is skipped without a request being issued
\* and without ending the chain: without a Groq key the chain goes on to
\* OpenAI, and without both keys the reply is the simulator's reply.
C14_UnconfiguredSkipped ==
    /\ \A i \in 1 .. Len(calls) :
           /\ (calls[i].op = "groq" /\ Falsy(GROQ_API_KEY))
                  => /\ calls[i].outcome = "unconfigured"
                     /\ IF i < Len(calls) THEN calls[i + 1].op = "openai" ELSE pc = "openai"
           /\ (calls[i].op = "openai" /\ Falsy(OPENAI_API_KEY))
                  => /\ calls[i].outcome = "unconfigured"
                     /\ i < Len(calls)
                     /\ calls[i + 1].op = "simulator"
    /\ (/\ Done
        /\ Falsy(GROQ_API_KEY)
        /\ Falsy(OPENAI_API_KEY)
        /\ \E i \in 1 .. Len(calls) : calls[i].op = "groq")
           => response.persona_response
                  = generate_offline_persona_response(transcribed_text, request.persona)

C14_Witness ==
    /\ Done
    /\ Falsy(GROQ_API_KEY)
    /\ Falsy(OPENAI_API_KEY)
    /\ \E i \in 1 .. Len(calls) : calls[i].op = "groq" /\ calls[i].outcome = "unconfigured"
    /\ \E i \in 1 .. Len(calls) : calls[i].op = "openai" /\ calls[i].outcome = "unconfigured"

\* The unit's speech synthesis failed.
SynthesisFailed ==
    \E i \in 1 .. Len(calls) : calls[i].op = "tts" /\ calls[i].outcome = "error"

\* C19: when speech synthesis fails in voice_interview_realtime, also for a
\* missing OpenAI key, the response carries the persona_response the chain
\* produced, persona_audio_url is null and conversation_status is "ongoing".
C19_SynthesisFailureKeepsReply ==
    (Done /\ SynthesisFailed)
        => /\ response.status = 200
           /\ response.persona_response = persona_response
           /\ \E i \in 1 .. Len(calls) :
                  /\ calls[i].op \in {"groq", "openai", "simulator"}
                  /\ calls[i].outcome = "success"
                  /\ calls[i].text = response.persona_response
                  /\ \A j \in (i + 1) .. Len(calls) : calls[j].op = "tts"
           /\ response.persona_audio_url = None
           /\ response.conversation_status = "ongoing"

C19_Witness ==
    /\ Done
    /\ SynthesisFailed
    /\ Falsy(OPENAI_API_KEY)
    /\ \E i \in 1 .. Len(calls) : calls[i].op = "groq" /\ calls[i].outcome = "success"

\* C20: when a unit has been processed successfully, the turn sequence of
\* the conversation has grown by exactly two turns, the founder's utterance
\* and then the persona's reply; the turns it held before are unchanged.
C20_TurnsAppended ==
    [][(pc = "tts" /\ pc' = "done")
          => LET before == request.conversation_history
                 after == request'.conversation_history
             IN  /\ Len(after) = Len(before) + 2
                 /\ SubSeq(after, 1, Len(before)) = before
                 /\ after[Len(before) + 1].message = transcribed_text
                 /\ after[Len(before) + 2].message = persona_response]_vars

(***************************************************************************)
(* Properties of voice_stream_websocket                                    *)
(***************************************************************************)
\* The frames the session has sent for its k-th inbound unit.
WsFrames(k) == {i \in 1 .. Len(ws_out) : ws_out[i].unit = k}

\* The external calls of the k-th inbound unit with the given outcome.
WsCalls(k, outcome) ==
    {i \in 1 .. Len(ws_calls) : ws_calls[i].unit = k /\ ws_calls[i].outcome = outcome}

\* The loop is back at receive_json after the latest unit, an audio_chunk.
WsChunkHandled == ws_pc = "receive" /\ Len(ws_in) > 0 /\ WsIsChunk(ws_data)

\* The latest unit's audio was transcribed and the completion provider is
\* configured and answering.
WsTextAndCompletionOk ==
    /\ WsCalls(Len(ws_in), "success") # {}
    /\ ~Falsy(GROQ_API_KEY)
    /\ ws_services.llm = "ok"

\* C15: every audio_chunk whose transcription, completion and synthesis all
\* succeed is answered with exactly one voice_response frame that carries
\* the audio, the transcript and the persona text; an error frame is sent
\* only for a unit one of whose external steps failed.
C15_OneVoiceResponsePerChunk ==
    /\ (WsChunkHandled /\ WsTextAndCompletionOk /\ ws_services.tts = "ok")
           => /\ Cardinality(WsFrames(Len(ws_in))) = 1
              /\ \A i \in WsFrames(Len(ws_in)) :
                     /\ ws_out[i].frame.type = "voice_response"
                     /\ {"audio", "transcribed_user", "persona_text"}
                            \subseteq DOMAIN ws_out[i].frame
    /\ \A i \in 1 .. Len(ws_out) :
           ws_out[i].frame.type = "error" => WsCalls(ws_out[i].unit, "error") # {}

C17_EndsOnlyOnEndOrDisconnect ==
    ws_pc \in {"close", "closed"} => ws_exit \in {"end_conversation", "disconnect"}

\* C18: when the transcription and the completion of an audio_chunk succeed
\* and the synthesis fails, the frame sent for the chunk carries the
\* persona's reply text and is not an error frame.
C18_SynthesisFailureKeepsText ==
    (WsChunkHandled /\ WsTextAndCompletionOk /\ ws_services.tts = "fail")
        => \E i \in WsFrames(Len(ws_in)) :
               /\ ws_out[i].frame.type # "error"
               /\ "persona_text" \in DOMAIN ws_out[i].frame

(***************************************************************************)
(* Further properties of voice_interview_realtime and the simulator        *)
(***************************************************************************)
\* The calls of the unit to one provider or helper.
CallsOf(op) == {i \in 1 .. Len(calls) : calls[i].op = op}

\* C26: when audio is supplied and its transcription fails, the unit is
\* answered with the fixed apology text, conversation_status "ongoing", no
\* audio and an empty transcript, and neither a completion provider nor
\* speech synthesis nor the simulator is invoked for the unit.
C26_TranscriptionFailureApology ==
    (Done /\ \E i \in CallsOf("transcribe") : calls[i].outcome = "error")
        => /\ ~Falsy(request.audio_file)
           /\ response.status = 200
           /\ response.persona_response = ApologyText
           /\ response.conversation_status = "ongoing"
           /\ response.persona_audio_url = None
           /\ response.transcribed_user_message = ""
           /\ CallsOf("groq") \cup CallsOf("openai") \cup CallsOf("tts")
                  \cup CallsOf("simulator") = {}

C26_Witness ==
    /\ Done
    /\ \E i \in CallsOf("transcribe") : calls[i].outcome = "error"
    /\ ~Falsy(GROQ_API_KEY)
    /\ ~Falsy(OPENAI_API_KEY)

\* C27: within one unit Groq is called at most once, OpenAI is called at
\* most once and only right after a Groq call that ended in a failure, and
\* no provider is called again after it has failed or been rejected.
C27_ProvidersAtMostOnce ==
    /\ Cardinality(CallsOf("groq")) <= 1
    /\ Cardinality(CallsOf("openai")) <= 1
    /\ \A i \in CallsOf("openai") :
           /\ i > 1
           /\ calls[i - 1].op = "groq"
           /\ calls[i - 1].outcome \in {"unconfigured", "timeout", "error"}
    /\ \A i \in CallsOf("groq") \cup CallsOf("openai") :
           calls[i].outcome # "success"
               => \A j \in (i + 1) .. Len(calls) : calls[j].op # calls[i].op

C27_Witness ==
    /\ Done
    /\ \E i \in CallsOf("groq") : calls[i].outcome = "timeout"
    /\ \E i \in CallsOf("openai") : calls[i].outcome = "error"
    /\ CallsOf("simulator") # {}

\* C28: an utterance that the classifier does not label vague because it
\* contains a good-behavioral phrase is never answered by the simulator
\* with a vague-clarification template.
C28_SimulatorVagueAgreesWithClassifier ==
    (/\ ContainsAny(lower(sim_user_message), good_question_patterns)
     /\ ~IsVagueQuestion(sim_user_message))
        => \A reply \in SimReplies : reply \notin Range(VagueResponses)

\* C29: within one session the units are processed one at a time and in
\* arrival order: a unit is received only after the frame of the audio_chunk
\* before it has been sent, the frames are in the order of the units that
\* caused them, and the socket is closed exactly once, after the loop.
C29_SequentialAndClosedOnce ==
    /\ \A i, j \in 1 .. Len(ws_out) : i < j => ws_out[i].unit < ws_out[j].unit
    /\ \A i \in 1 .. Len(ws_out) : WsIsChunk(ws_in[ws_out[i].unit])
    /\ \A k \in 1 .. (Len(ws_in) - 1) :
           WsIsChunk(ws_in[k]) => Cardinality(WsFrames(k)) = 1
    /\ ws_pc \in {"transcribe", "send"} => WsFrames(Len(ws_in)) = {}
    /\ ws_closes = (IF ws_pc = "closed" THEN 1 ELSE 0)
    /\ ws_pc \in {"close", "closed"} => ws_exit # ""

C29_Witness ==
    /\ ws_pc = "closed"
    /\ ws_closes = 1
    /\ ws_exit = "end_conversation"
    /\ Len(ws_out) >= 2

(***************************************************************************)
(* get_persona_voice                                                       *)
(***************************************************************************)
NameMatches(names) == ContainsAny(lower(voice_name), names)

StyleHas(word) == Contains(lower(voice_style), word)

FixedVoices == {"shimmer", "nova", "alloy", "echo", "fable", "onyx"}

VoiceReturned == voice_results[Len(voice_results)]

\* C22: get_persona_voice is a total, deterministic first-match table over a
\* fixed voice set: every call returns one of the six voices; a name of the
\* female list (also one that is in the male list too) gets shimmer for a
\* professional or formal style, else nova for creative or friendly, else
\* alloy; otherwise a name of the male list gets echo for technical or
\* analytical, else fable for casual or friendly, else onyx; two calls with
\* the same name and style return the same voice, and ("Sarah",
\* "professional") returns shimmer.
C22_VoiceDecisionTable ==
    voice_results # <<>> =>
        /\ VoiceReturned \in FixedVoices
        /\ NameMatches(FemaleNames) =>
               VoiceReturned =
                   IF StyleHas("professional") \/ StyleHas("formal") THEN "shimmer"
                   ELSE IF StyleHas("creative") \/ StyleHas("friendly") THEN "nova"
                   ELSE "alloy"
        /\ ~NameMatches(FemaleNames) /\ NameMatches(MaleNames) =>
               VoiceReturned =
                   IF StyleHas("technical") \/ StyleHas("analytical") THEN "echo"
                   ELSE IF StyleHas("casual") \/ StyleHas("friendly") THEN "fable"
                   ELSE "onyx"
        /\ Len(voice_results) = 2 => voice_results[1] = voice_results[2]
        /\ voice_name = "Sarah" /\ voice_style = "professional" => VoiceReturned = "shimmer"

\* A name of both lists has been given a voice twice, under a style that
\* separates the female branch from the male one.
C22_Witness ==
    /\ NameMatches(FemaleNames)
    /\ NameMatches(MaleNames)
    /\ StyleHas("technical")
    /\ Len(voice_results) = 2

\* C23 as stated: a name of neither list gets, for a style containing
\* "creative" or "artistic", a voice other than the one it gets for a style
\* without these words.
C23_CreativeVoiceDiffers ==
    /\ voice_results # <<>>
    /\ ~NameMatches(FemaleNames)
    /\ ~NameMatches(MaleNames)
    /\ StyleHas("creative") \/ StyleHas("artistic")
    => VoiceReturned # get_persona_voice(voice_name, "blunt")

\* C23, amended: a name of neither list gets the single default voice nova
\* whatever the communication style, also when the style contains
\* "creative" or "artistic".
C23_UnlistedNameDefaultVoice ==
    /\ voice_results # <<>>
    /\ ~NameMatches(FemaleNames)
    /\ ~NameMatches(MaleNames)
    => VoiceReturned = "nova"

\* A name of neither list has been given a voice for an artistic style.
C23_Witness ==
    /\ voice_results # <<>>
    /\ ~NameMatches(FemaleNames)
    /\ ~NameMatches(MaleNames)
    /\ StyleHas("artistic")

(***************************************************************************)
(* conduct_interview and voice_interview                                   *)
(***************************************************************************)
IvAnswered == iv_pc = "done" /\ iv_response.status = 200

\* call_groq raised, or its text did not parse as an InterviewAIResponse.
IvGroqUnusable ==
    \E i \in 1 .. Len(iv_calls) :
        \/ iv_calls[i].op = "groq" /\ iv_calls[i].outcome # "success"
        \/ iv_calls[i].op = "parse" /\ iv_calls[i].outcome = "error"

\* C21: the conversation status an interview endpoint reports is "ongoing"
\* or "completed", and "completed" only on an explicit end signal of the
\* caller, never because the provider's output says so.  The requests of
\* conduct_interview and voice_interview have no field that is an end
\* signal, so their status is never "completed".
C21_StatusFromCallerOnly ==
    IvAnswered =>
        /\ iv_response.conversation_status \in {"ongoing", "completed"}
        /\ iv_response.conversation_status # "completed"

\* C25: conduct_interview always answers with a persona_response and
\* suggested_questions; when call_groq fails (unconfigured, timeout, error
\* status) or its text is not a valid InterviewAIResponse, the answer is the
\* contextual fallback: status "ongoing", two suggested questions, and a
\* persona_response naming the persona's role, its first pain point (or
\* "time management") and its first goal (or "efficiency").
C25_ContextualFallback ==
    iv_entry = "interview" /\ iv_pc = "done" =>
        /\ iv_response.status = 200
        /\ {"persona_response", "suggested_questions"} \subseteq DOMAIN iv_response
        /\ IvGroqUnusable =>
               /\ iv_response.conversation_status = "ongoing"
               /\ Len(iv_response.suggested_questions) = 2
               /\ Contains(iv_response.persona_response, iv_request.persona.role)
               /\ Contains(iv_response.persona_response,
                           IF Len(iv_request.persona.pain_points) > 0
                           THEN iv_request.persona.pain_points[1] ELSE "time management")
               /\ Contains(iv_response.persona_response,
                           IF Len(iv_request.persona.goals) > 0
                           THEN iv_request.persona.goals[1] ELSE "efficiency")

\* conduct_interview has answered a persona without pain points and goals
\* after Groq returned a text that is not a valid InterviewAIResponse.
C25_Witness ==
    /\ iv_entry = "interview"
    /\ iv_pc = "done"
    /\ iv_request.persona.pain_points = <<>>
    /\ \E i \in 1 .. Len(iv_calls) : iv_calls[i].op = "parse" /\ iv_calls[i].outcome = "error"

(***************************************************************************)
(* orchestrator                                                            *)
(***************************************************************************)
\* A provider call or the parse of its text failed during the request.
OrchCallFailed ==
    \E i \in 1 .. Len(orch_calls) : orch_calls[i].outcome # "success"

\* C30: the orchestrator answers a step it does not know with a 400 that
\* names the step, without calling any provider, and answers 500 only when
\* a provider call or the parse of its text failed.
C30_UnknownStepBadRequest ==
    orch_pc = "done" =>
        /\ orch_request.step \notin {"personas", "market"} =>
               /\ orch_response.status = 400
               /\ Contains(orch_response.detail, orch_request.step)
               /\ orch_calls = <<>>
        /\ orch_response.status = 500 => OrchCallFailed

(***************************************************************************)
(* Two concurrent sessions                                                 *)
(***************************************************************************)
\* A step of the /voice-interview-realtime request when it runs alone.
UnitAlone == Receive \/ Transcribe \/ Compose \/ CallGroq \/ CallOpenAI \/ Synthesize \/ Return

\* The provider outcomes one unit or connection has logged fit one
\* configuration: no call found a key missing that another call of the
\* same provider used.
OneConfiguration ==
    /\ ~ \E i, j \in 1 .. Len(calls) :
           /\ calls[i].op \in {"transcribe", "openai", "tts"}
           /\ calls[i].outcome = "success"
           /\ calls[j].op \in {"openai", "tts"}
           /\ calls[j].outcome = "unconfigured"
    /\ (\E i \in 1 .. Len(ws_calls) : ws_calls[i].outcome = "success")
           => ~Falsy(OPENAI_API_KEY)

\* C24: sessions are independent.  While a /voice-interview-realtime
\* request and a /voice-stream connection are served concurrently, in any
\* interleaving of their steps, every step that changes the state of one
\* session is a step that session takes when it runs alone, leaves the
\* state of the other session as it is and writes nothing of the process
\* configuration, which each session sees unchanged from its first provider
\* call to its last.
C24_SessionsIndependent ==
    /\ []OneConfiguration
    /\ [][/\ procvars' = procvars
          /\ unitvars' # unitvars => UnitAlone
          /\ wsvars' # wsvars => WsNext /\ unitvars' = unitvars]_vars

\* Both sessions are in the middle of a unit: the connection awaits the
\* transcription of its second chunk, having sent a frame, and the request
\* has called a provider and awaits the next.
C24_Witness ==
    /\ ws_pc = "transcribe"
    /\ Len(ws_out) > 0
    /\ pc \in {"openai", "tts"}
    /\ calls # <<>>

====
